---- MODULE Spec2Model ----
(***************************************************************************)
(* Model of the Diary repository's encryption envelope (crypto.js:         *)
(* encryptText / decryptPackage, batch_encrypt.js: encryptTextNode) and of *)
(* the batch tool's main routine.                                          *)
(*                                                                         *)
(* A JavaScript string is a sequence of UTF-16 code units (naturals), a    *)
(* buffer a sequence of bytes (0..255).  Platform primitives (TextEncoder, *)
(* TextDecoder, btoa/atob, Buffer, PBKDF2, AES-GCM) are modelled by what   *)
(* they compute on these sequences.                                        *)
(***************************************************************************)
EXTENDS Integers, Sequences, FiniteSets, TLC

(***************************************************************************)
(* Bounds of the model.                                                    *)
(***************************************************************************)
\* longest plaintext string, in UTF-16 code units
MaxLen == 2
\* the random source has MaxSeed + 1 possible outcomes per draw
MaxSeed == 1

(***************************************************************************)
(* Program constants.                                                      *)
(***************************************************************************)
\* crypto.js: rndBytes(16), batch_encrypt.js: randomBytes(16)
SaltLen == 16
\* crypto.js: rndBytes(12), batch_encrypt.js: randomBytes(12)
IvLen == 12
\* crypto.js: the browser's iteration count, also decryptPackage's fallback
BrowserIterations == 200000
\* batch_encrypt.js: const ITERATIONS
ITERATIONS == 1000000
\* AES-GCM's authentication tag, in bytes (WebCrypto's default tagLength 128)
TagLen == 16

(***************************************************************************)
(* Sequence helpers.                                                       *)
(***************************************************************************)
Drop(s, n) ==
    IF n >= Len(s) THEN << >> ELSE SubSeq(s, n + 1, Len(s))

Take(s, n) ==
    IF n >= Len(s) THEN s ELSE SubSeq(s, 1, n)

\* all sequences over S of length at most n
SeqsUpTo(S, n) == UNION { [1..k -> S] : k \in 0..n }

\* the concatenation of piece(1), ..., piece(n)
Concat(piece(_), n) ==
    LET f[i \in 0..n] == IF i = 0 THEN << >> ELSE f[i - 1] \o piece(i)
    IN  f[n]

(***************************************************************************)
(* TextEncoder.encode: UTF-16 code units to UTF-8 bytes.  A surrogate pair *)
(* encodes one supplementary code point in four bytes; a lone surrogate is *)
(* replaced by U+FFFD (EF BF BD).                                          *)
(***************************************************************************)
IsHigh(u) == u >= 55296 /\ u <= 56319
IsLow(u) == u >= 56320 /\ u <= 57343

Utf8OfCodePoint(cp) ==
    IF cp < 128 THEN << cp >>
    ELSE IF cp < 2048 THEN << 192 + (cp \div 64), 128 + (cp % 64) >>
    ELSE IF cp < 65536 THEN
        << 224 + (cp \div 4096), 128 + ((cp \div 64) % 64), 128 + (cp % 64) >>
    ELSE << 240 + (cp \div 262144), 128 + ((cp \div 4096) % 64),
            128 + ((cp \div 64) % 64), 128 + (cp % 64) >>

\* the bytes the code unit at position i of s contributes
Utf8OfUnit(s, i) ==
    IF IsHigh(s[i]) /\ i < Len(s) /\ IsLow(s[i + 1]) THEN
        Utf8OfCodePoint(65536 + (s[i] - 55296) * 1024 + (s[i + 1] - 56320))
    ELSE IF IsLow(s[i]) /\ i > 1 /\ IsHigh(s[i - 1]) THEN << >>
    ELSE IF IsHigh(s[i]) \/ IsLow(s[i]) THEN << 239, 191, 189 >>
    ELSE Utf8OfCodePoint(s[i])

strToBuf(s) == Concat(LAMBDA i : Utf8OfUnit(s, i), Len(s))

(***************************************************************************)
(* TextDecoder.decode: the WHATWG UTF-8 decoder.  st is the decoder state  *)
(* (code point so far, continuation bytes still needed, the bounds for the *)
(* next byte); an ill-formed sequence decodes to U+FFFD and the offending  *)
(* byte is looked at again.                                                *)
(***************************************************************************)
Utf16OfCodePoint(cp) ==
    IF cp < 65536 THEN << cp >>
    ELSE << 55296 + ((cp - 65536) \div 1024), 56320 + ((cp - 65536) % 1024) >>

DecoderStart == [cp |-> 0, need |-> 0, lo |-> 128, hi |-> 191]

\* one byte x in decoder state st, which needs no continuation byte
DecodeLead(x) ==
    IF x < 128 THEN [out |-> << x >>, st |-> DecoderStart]
    ELSE IF x >= 194 /\ x <= 223 THEN
        [out |-> << >>, st |-> [cp |-> x - 192, need |-> 1, lo |-> 128, hi |-> 191]]
    ELSE IF x >= 224 /\ x <= 239 THEN
        [out |-> << >>, st |-> [cp |-> x - 224, need |-> 2,
                                lo |-> IF x = 224 THEN 160 ELSE 128,
                                hi |-> IF x = 237 THEN 159 ELSE 191]]
    ELSE IF x >= 240 /\ x <= 244 THEN
        [out |-> << >>, st |-> [cp |-> x - 240, need |-> 3,
                                lo |-> IF x = 240 THEN 144 ELSE 128,
                                hi |-> IF x = 244 THEN 143 ELSE 191]]
    ELSE [out |-> << 65533 >>, st |-> DecoderStart]

\* one byte x in decoder state st
DecodeByte(st, x) ==
    IF st.need = 0 THEN DecodeLead(x)
    ELSE IF x < st.lo \/ x > st.hi THEN
        LET again == DecodeLead(x)
        IN  [out |-> << 65533 >> \o again.out, st |-> again.st]
    ELSE IF st.need = 1 THEN
        [out |-> Utf16OfCodePoint(st.cp * 64 + (x - 128)), st |-> DecoderStart]
    ELSE [out |-> << >>, st |-> [cp |-> st.cp * 64 + (x - 128), need |-> st.need - 1,
                                 lo |-> 128, hi |-> 191]]

Utf8Decode(b) ==
    LET f[i \in 0..Len(b)] ==
            IF i = 0 THEN [out |-> << >>, st |-> DecoderStart]
            ELSE LET d == DecodeByte(f[i - 1].st, b[i])
                 IN  [out |-> f[i - 1].out \o d.out, st |-> d.st]
        end == f[Len(b)]
    IN  IF end.st.need = 0 THEN end.out ELSE Append(end.out, 65533)

\* new TextDecoder().decode(b): ignoreBOM is false, so a leading EF BB BF is
\* consumed and does not appear in the result
bufToStr(b) ==
    IF Len(b) >= 3 /\ Take(b, 3) = << 239, 187, 191 >>
    THEN Utf8Decode(Drop(b, 3))
    ELSE Utf8Decode(b)

\* fs.readFileSync(path, 'utf8'): Node decodes the file's bytes and keeps a
\* leading byte order mark as U+FEFF
readUtf8(b) == Utf8Decode(b)

(***************************************************************************)
(* Base64.  The text is a string of ASCII code units.                      *)
(***************************************************************************)
B64Char(v) ==
    IF v < 26 THEN 65 + v
    ELSE IF v < 52 THEN 97 + (v - 26)
    ELSE IF v < 62 THEN 48 + (v - 52)
    ELSE IF v = 62 THEN 43 ELSE 47

\* the 6-bit value of a base64 character, -1 for any other character
B64Val(c) ==
    IF c >= 65 /\ c <= 90 THEN c - 65
    ELSE IF c >= 97 /\ c <= 122 THEN c - 97 + 26
    ELSE IF c >= 48 /\ c <= 57 THEN c - 48 + 52
    ELSE IF c = 43 THEN 62
    ELSE IF c = 47 THEN 63
    ELSE -1

\* btoa(String.fromCharCode(...bytes)) and Buffer.from(buf).toString('base64'):
\* every three bytes give four characters, the last group padded with "="
bufToB64(b) ==
    LET n == Len(b)
        byte(k) == IF k <= n THEN b[k] ELSE 0
    IN  [j \in 1..(4 * ((n + 2) \div 3)) |->
            LET g == (j - 1) \div 4
                b1 == byte(3 * g + 1)
                b2 == byte(3 * g + 2)
                b3 == byte(3 * g + 3)
            IN  CASE (j - 1) % 4 = 0 -> B64Char(b1 \div 4)
                  [] (j - 1) % 4 = 1 -> B64Char((b1 % 4) * 16 + (b2 \div 16))
                  [] (j - 1) % 4 = 2 ->
                        IF 3 * g + 2 > n THEN 61
                        ELSE B64Char((b2 % 16) * 4 + (b3 \div 64))
                  [] OTHER -> IF 3 * g + 3 > n THEN 61 ELSE B64Char(b3 % 64)]

\* the bytes of a run of base64 characters without padding
B64Bytes(t) ==
    LET m == Len(t)
        val(k) == IF k <= m THEN B64Val(t[k]) ELSE 0
        n == 3 * (m \div 4) + (IF m % 4 = 0 THEN 0 ELSE (m % 4) - 1)
    IN  [k \in 1..n |->
            LET g == (k - 1) \div 3
                v1 == val(4 * g + 1)
                v2 == val(4 * g + 2)
                v3 == val(4 * g + 3)
                v4 == val(4 * g + 4)
            IN  CASE (k - 1) % 3 = 0 -> v1 * 4 + (v2 \div 16)
                  [] (k - 1) % 3 = 1 -> (v2 % 16) * 16 + (v3 \div 4)
                  [] OTHER -> (v3 % 4) * 64 + v4]

IsWhitespace(c) == c \in {9, 10, 12, 13, 32}

\* atob's forgiving-base64 decode: whitespace is removed, one or two padding
\* characters are removed when the length is a multiple of four, and the rest
\* must be base64 characters with a length that is not 1 modulo 4
AtobStripped(t) ==
    LET nows == SelectSeq(t, LAMBDA c : ~IsWhitespace(c))
        n == Len(nows)
    IN  IF n % 4 = 0 /\ n >= 2 /\ nows[n] = 61 /\ nows[n - 1] = 61 THEN Take(nows, n - 2)
        ELSE IF n % 4 = 0 /\ n >= 1 /\ nows[n] = 61 THEN Take(nows, n - 1)
        ELSE nows

AtobValid(t) ==
    LET s == AtobStripped(t)
    IN  /\ Len(s) % 4 # 1
        /\ \A i \in 1..Len(s) : B64Val(s[i]) >= 0

\* b64ToBuf (crypto.js): atob and a copy of the char codes; defined when AtobValid
b64ToBuf(t) == B64Bytes(AtobStripped(t))

(***************************************************************************)
(* JavaScript values of an envelope's fields and JSON text.  An object is  *)
(* a function over its field names with Undefined for an absent field;     *)
(* JSON text is the sequence of members that JSON.stringify writes, in the *)
(* object's insertion order and without the undefined ones.                *)
(***************************************************************************)
Undefined == [t |-> "undefined"]
Num(n) == [t |-> "num", n |-> n]
Str(s) == [t |-> "str", s |-> s]

FieldNames == << "v", "kdf", "kdf_iter", "salt", "iv", "ct" >>

\* the string "PBKDF2"
KdfName == << 80, 66, 75, 68, 70, 50 >>

\* !x
Falsy(x) ==
    \/ x = Undefined
    \/ x.t = "num" /\ x.n = 0
    \/ x.t = "str" /\ x.s = << >>

JsonStringify(obj) ==
    SelectSeq([i \in 1..Len(FieldNames) |-> << FieldNames[i], obj[FieldNames[i]] >>],
              LAMBDA m : m[2] # Undefined)

JsonParse(text) ==
    [k \in { FieldNames[i] : i \in 1..Len(FieldNames) } |->
        IF \E j \in 1..Len(text) : text[j][1] = k
        THEN text[CHOOSE j \in 1..Len(text) :
                    /\ text[j][1] = k
                    /\ \A j2 \in 1..Len(text) : text[j2][1] = k => j2 <= j][2]
        ELSE Undefined]

(***************************************************************************)
(* The random source: crypto.getRandomValues on a fresh Uint8Array(n).     *)
(* Any n bytes can come out; the model draws one of MaxSeed + 1 outcomes.  *)
(***************************************************************************)
RandomOutcome(n, seed) == [i \in 1..n |-> (37 * seed + 11 * i) % 256]

rndBytes(n) == { RandomOutcome(n, seed) : seed \in 0..MaxSeed }

(***************************************************************************)
(* PBKDF2-HMAC-SHA-256 and AES-256-GCM (crypto.subtle).  The derived key   *)
(* is the triple it is a deterministic function of.  The cipher adds a     *)
(* keystream to the plaintext and appends a TagLen-byte tag computed from  *)
(* key, IV and ciphertext body; decryption recomputes the tag and fails    *)
(* when it differs.                                                        *)
(***************************************************************************)
\* the sum of term(lo), ..., term(hi)
RECURSIVE Sum(_, _, _)
Sum(term(_), lo, hi) ==
    IF lo > hi THEN 0
    ELSE IF lo = hi THEN term(lo)
    ELSE Sum(term, lo, (lo + hi) \div 2) + Sum(term, ((lo + hi) \div 2) + 1, hi)

\* a digest of the byte sequence b, one for every weight w
Digest(b, w) ==
    Sum(LAMBDA i : (b[i] + 1) * (((i * w) % 251) + 1), 1, Len(b)) % 65521

\* crypto.subtle.importKey + deriveKey: fails for an iteration count of zero
\* (OperationError) or outside unsigned long (TypeError)
Pbkdf2(passwordBytes, saltBytes, iterations) ==
    IF iterations = 0 THEN [err |-> "OperationError"]
    ELSE IF iterations < 0 THEN [err |-> "TypeError"]
    ELSE [err |-> "none", pw |-> passwordBytes, salt |-> saltBytes, iter |-> iterations]

\* what the cipher's output depends on besides the text: key and IV
KeyMaterial(key, iv) ==
    key.pw \o << 256 >> \o key.salt
        \o << key.iter % 256, (key.iter \div 256) % 256, key.iter \div 65536 >> \o iv

KeyStream(key, iv, i) == ((Digest(KeyMaterial(key, iv), 3) + 7919 * i) % 65521) % 256

GcmTag(key, iv, body) ==
    LET all == KeyMaterial(key, iv) \o << 256 >> \o body
        h1 == Digest(all, 5)
        h2 == Digest(all, 11)
    IN  [j \in 1..TagLen |-> (((IF j % 2 = 1 THEN h1 ELSE h2) + 977 * j) % 65521) % 256]

AesGcmEncrypt(key, iv, plainBytes) ==
    LET body == [i \in 1..Len(plainBytes) |->
                    (plainBytes[i] + KeyStream(key, iv, i)) % 256]
    IN  body \o GcmTag(key, iv, body)

AesGcmDecrypt(key, iv, ctBytes) ==
    IF Len(ctBytes) < TagLen THEN [ok |-> FALSE]
    ELSE LET n == Len(ctBytes) - TagLen
             body == Take(ctBytes, n)
         IN  IF Drop(ctBytes, n) # GcmTag(key, iv, body) THEN [ok |-> FALSE]
             ELSE [ok |-> TRUE,
                   data |-> [i \in 1..n |->
                               (body[i] + 256 - KeyStream(key, iv, i)) % 256]]

\* crypto.js
deriveKeyFromPassword(password, saltBytes, iterations) ==
    Pbkdf2(strToBuf(password), saltBytes, iterations)

\* batch_encrypt.js
deriveKeyFromPasswordNode(password, saltBytes, iterations) ==
    Pbkdf2(strToBuf(password), saltBytes, iterations)

(***************************************************************************)
(* Encrypt.  salt and iv are the two draws from the random source.         *)
(***************************************************************************)
MakePkg(kdf_iter, salt, iv, ctBuf) ==
    [k \in { FieldNames[i] : i \in 1..Len(FieldNames) } |->
        CASE k = "v" -> Num(1)
          [] k = "kdf" -> Str(KdfName)
          [] k = "kdf_iter" -> Num(kdf_iter)
          [] k = "salt" -> Str(bufToB64(salt))
          [] k = "iv" -> Str(bufToB64(iv))
          [] k = "ct" -> Str(bufToB64(ctBuf))]

\* crypto.js encryptText(plaintext, password)
encryptText(plaintext, password, salt, iv) ==
    LET key == deriveKeyFromPassword(password, salt, BrowserIterations)
        ctBuf == AesGcmEncrypt(key, iv, strToBuf(plaintext))
    IN  JsonStringify(MakePkg(BrowserIterations, salt, iv, ctBuf))

\* batch_encrypt.js encryptTextNode(plaintext, password, iterations); called
\* with iterations >= 1, else deriveKey throws
encryptTextNode(plaintext, password, iterations, salt, iv) ==
    LET key == deriveKeyFromPasswordNode(password, salt, iterations)
        encBuf == AesGcmEncrypt(key, iv, strToBuf(plaintext))
    IN  JsonStringify(MakePkg(iterations, salt, iv, encBuf))

(***************************************************************************)
(* decryptPackage (crypto.js), up to its first await: parse, the version   *)
(* gate, the field gate, the three base64 decodings, the iteration count.  *)
(* The argument is JSON text or the value null.                            *)
(***************************************************************************)
Null == [t |-> "null"]

UnsupportedVersion == "Unsupported package version"
MalformedPackage == "Malformed package"
AuthenticationFailure == "Decryption failed (wrong passphrase or corrupted data)"
\* the errors of crypto.subtle.deriveKey for an iteration count it does not accept
InvalidIterationCount == {"OperationError", "TypeError"}

\* a decryptPackage that ignores kdf_iter and uses its own default
IterationsOf_OwnDefault(pkg) == BrowserIterations

\* const iterations = pkg.kdf_iter || 200000
IterationsOf(pkg) ==
    IF Falsy(pkg["kdf_iter"]) THEN BrowserIterations ELSE pkg["kdf_iter"].n

\* the locals of a call that passed both gates
GateLocals(pkg) ==
    IF \E f \in {"salt", "iv", "ct"} : ~AtobValid(pkg[f].s)
    THEN [err |-> "InvalidCharacterError"]
    ELSE [err |-> "none",
          saltBuf |-> b64ToBuf(pkg["salt"].s),
          ivBuf |-> b64ToBuf(pkg["iv"].s),
          ctBuf |-> b64ToBuf(pkg["ct"].s),
          iterations |-> IterationsOf(pkg)]

\* a decryptPackage that checks the fields before the version
decryptPackageGate_FieldsFirst(pkgJsonOrObj) ==
    IF pkgJsonOrObj = Null THEN [err |-> UnsupportedVersion]
    ELSE LET pkg == JsonParse(pkgJsonOrObj)
         IN  IF Falsy(pkg["salt"]) \/ Falsy(pkg["iv"]) \/ Falsy(pkg["ct"])
                 THEN [err |-> MalformedPackage]
             ELSE IF pkg["v"] # Num(1) THEN [err |-> UnsupportedVersion]
             ELSE GateLocals(pkg)

\* a decryptPackage without the field gate: atob(undefined) throws
decryptPackageGate_NoFieldGate(pkgJsonOrObj) ==
    IF pkgJsonOrObj = Null THEN [err |-> UnsupportedVersion]
    ELSE LET pkg == JsonParse(pkgJsonOrObj)
         IN  IF pkg["v"] # Num(1) THEN [err |-> UnsupportedVersion]
             ELSE IF Falsy(pkg["salt"]) \/ Falsy(pkg["iv"]) \/ Falsy(pkg["ct"])
                 THEN [err |-> "InvalidCharacterError"]
             ELSE GateLocals(pkg)

\* lines 60-67: the error thrown, or the locals the rest of the call uses
decryptPackageGate(pkgJsonOrObj) ==
    IF pkgJsonOrObj = Null THEN [err |-> UnsupportedVersion]
    ELSE LET pkg == JsonParse(pkgJsonOrObj)
         IN  IF pkg["v"] # Num(1) THEN [err |-> UnsupportedVersion]
             ELSE IF Falsy(pkg["salt"]) \/ Falsy(pkg["iv"]) \/ Falsy(pkg["ct"])
                 THEN [err |-> MalformedPackage]
             ELSE GateLocals(pkg)

(***************************************************************************)
(* State of the envelope codec.                                            *)
(***************************************************************************)
VARIABLES
    encIn,      \* the arguments and random draws of the Encrypt call that made the envelope
    envelope,   \* the envelope at hand: JSON text, or Null
    tampered,   \* which fields of the envelope were changed after Encrypt
    dpc,        \* decryptPackage: "idle", "importing", "deriving", "decrypting", "returned", "thrown"
    dPass,      \* decryptPackage: the password argument
    dLocal,     \* decryptPackage: its locals (saltBuf, ivBuf, ctBuf, iterations, key, plainBuf)
    dOut,       \* decryptPackage: the value returned or the error thrown
    ops         \* the crypto.subtle operations the current decryptPackage call has started

codecVars == << encIn, envelope, tampered, dpc, dPass, dLocal, dOut, ops >>

\* state of a run of the batch tool (batch_encrypt.js, main)
VARIABLES
    targetKind, \* what the target path is: "dir", "file" or "missing"
    fs,         \* the target directory: entry name -> content
    fs0,        \* the target directory when the run began
    bpc,        \* main: "off", "start", "prompt1", "prompt2", "encrypting", "exited"
    txtFiles,   \* main: txtFiles
    idx,        \* main: the position in txtFiles of the file being encrypted
    pass1,      \* main: pass1, then passphrase
    pass2,      \* main: pass2
    cur,        \* main: plain, and encryptTextNode's salt and iv, of the file being encrypted
    encNames,   \* main: encNames
    exitCode,   \* the process's exit status, -1 while it runs
    stderr,     \* the last message on the error stream, "" while there is none
    fault,      \* why the run failed: "none", "dir", "mismatch", "ctrlc", "io", "random"
    prompts,    \* how many passphrase prompts were shown
    writes      \* the writeFileSync calls in order: the name, and whether it returned

batchVars == << targetKind, fs, fs0, bpc, txtFiles, idx, pass1, pass2, cur, encNames,
                exitCode, stderr, fault, prompts, writes >>

(***************************************************************************)
(* State of the viewer (script.js): the site it is served from, the        *)
(* browser's two storages, and the page.                                   *)
(***************************************************************************)
VARIABLES
    site,         \* what the server holds: manifest.json and the diary files
    sessionStore, \* sessionStorage of the tab
    localStore,   \* localStorage of the origin
    vpc,          \* the page: "off", "closed", "manifest", "loading", "ready"
    vPass,        \* loadAllDiariesFromFolder: passphrase (<< >> for null)
    vFiles,       \* loadAllDiariesFromFolder: files
    vIdx,         \* loadAllDiariesFromFolder: i + 1
    diaryData,    \* diaryData: year -> entries
    vError,       \* the message of the error the load displayed, or ""
    promptLog,    \* the prompt() calls of this session: what was stored, what was entered
    decLog,       \* the decryptPackage calls of this load: file, password, outcome
    loads,        \* page loads of this session so far
    currentDate,  \* currentDate: NullDate or [y, m, d], m from 0
    currentView,  \* currentView
    currentYear,  \* currentYear (0 for null)
    lastNav       \* the last navigate call: its delta, the view and the date it found

viewerVars == << site, sessionStore, localStore, vpc, vPass, vFiles, vIdx, diaryData,
                 vError, promptLog, decLog, loads,
                 currentDate, currentView, currentYear, lastNav >>

vars == << codecVars, batchVars, viewerVars >>

\* currentDate = null
NullDate == [null |-> TRUE]
\* no navigate call yet
NoNav == [delta |-> 0]
\* a storage without keys
EmptyStore == [k \in {} |-> ""]

\* the inputs the model draws from
PlainChars == {72, 65279}
Plaintexts == SeqsUpTo(PlainChars, MaxLen)
Passphrases == { << 97 >>, << 98 >> }
NodeIterationChoices == {1, ITERATIONS}

NoCall == [kind |-> "none"]
NoLocals == [err |-> "none"]

DecryptIdle == dpc \in {"idle", "returned", "thrown"}

ResetDecrypt ==
    /\ dpc' = "idle"
    /\ dPass' = << >>
    /\ dLocal' = NoLocals
    /\ dOut' = NoCall
    /\ ops' = << >>

\* the browser encrypts: encryptText(plain, pass)
BrowserEncrypt ==
    /\ encIn.side = "none"
    /\ \E plain \in Plaintexts, pass \in Passphrases,
          salt \in rndBytes(SaltLen), iv \in rndBytes(IvLen) :
            /\ envelope' = encryptText(plain, pass, salt, iv)
            /\ encIn' = [side |-> "browser", plain |-> plain, pass |-> pass,
                         iter |-> BrowserIterations, salt |-> salt, iv |-> iv]
    /\ tampered' = {}
    /\ ResetDecrypt
    /\ UNCHANGED << batchVars, viewerVars >>

\* the batch tool encrypts: encryptTextNode(plain, pass, iterations)
NodeEncrypt ==
    /\ encIn.side = "none"
    /\ \E plain \in Plaintexts, pass \in Passphrases, iterations \in NodeIterationChoices,
          salt \in rndBytes(SaltLen), iv \in rndBytes(IvLen) :
            /\ envelope' = encryptTextNode(plain, pass, iterations, salt, iv)
            /\ encIn' = [side |-> "node", plain |-> plain, pass |-> pass,
                         iter |-> iterations, salt |-> salt, iv |-> iv]
    /\ tampered' = {}
    /\ ResetDecrypt
    /\ UNCHANGED << batchVars, viewerVars >>

(***************************************************************************)
(* What reaches decryptPackage need not be what Encrypt wrote: the version *)
(* may be changed, and one of the other fields dropped or changed.         *)
(***************************************************************************)
SetField(text, f, x) == JsonStringify([JsonParse(text) EXCEPT ![f] = x])

CanTamper(kind) ==
    /\ DecryptIdle
    /\ envelope # Null
    /\ kind \notin tampered
    /\ tampered \subseteq {"v"} \/ kind = "v"

\* the caller passes null, or the text "null"
ReplaceByNull ==
    /\ CanTamper("null")
    /\ tampered = {}
    /\ envelope' = Null
    /\ tampered' = {"null"}
    /\ ResetDecrypt
    /\ UNCHANGED encIn
    /\ UNCHANGED << batchVars, viewerVars >>

TamperVersion ==
    /\ CanTamper("v")
    /\ \E x \in {Undefined, Num(2), Str(<< 49 >>)} :
          envelope' = SetField(envelope, "v", x)
    /\ tampered' = tampered \cup {"v"}
    /\ ResetDecrypt
    /\ UNCHANGED encIn
    /\ UNCHANGED << batchVars, viewerVars >>

DropField ==
    /\ \E f \in {"salt", "iv", "ct"} :
          /\ CanTamper(f)
          /\ tampered \cap {"salt", "iv", "ct", "kdf_iter"} = {}
          /\ envelope' = SetField(envelope, f, Undefined)
          /\ tampered' = tampered \cup {f}
    /\ ResetDecrypt
    /\ UNCHANGED encIn
    /\ UNCHANGED << batchVars, viewerVars >>

\* one character of the ct field is changed, to a base64 character or to "!"
FlipCt ==
    /\ CanTamper("ct")
    /\ tampered \cap {"salt", "iv", "kdf_iter"} = {}
    /\ LET ct == JsonParse(envelope)["ct"].s
       IN  \E i \in {1, Len(ct) - 2}, c \in {65, 66, 33} :
              /\ ct[i] # c
              /\ envelope' = SetField(envelope, "ct", Str([ct EXCEPT ![i] = c]))
    /\ tampered' = tampered \cup {"ct"}
    /\ ResetDecrypt
    /\ UNCHANGED encIn
    /\ UNCHANGED << batchVars, viewerVars >>

TamperIter ==
    /\ CanTamper("kdf_iter")
    /\ tampered \cap {"salt", "iv", "ct"} = {}
    /\ \E x \in {Undefined, Num(0), Num(-1), Num(BrowserIterations)} :
          /\ JsonParse(envelope)["kdf_iter"] # x
          /\ envelope' = SetField(envelope, "kdf_iter", x)
    /\ tampered' = tampered \cup {"kdf_iter"}
    /\ ResetDecrypt
    /\ UNCHANGED encIn
    /\ UNCHANGED << batchVars, viewerVars >>

(***************************************************************************)
(* decryptPackage(envelope, password), one action per await.               *)
(***************************************************************************)
Throw(msg) ==
    /\ dpc' = "thrown"
    /\ dOut' = [kind |-> "error", msg |-> msg]

\* the call, up to crypto.subtle.importKey in deriveKeyFromPassword
DecryptCall ==
    /\ DecryptIdle
    /\ encIn.side # "none"
    /\ \E password \in Passphrases : dPass' = password
    /\ LET g == decryptPackageGate(envelope)
       IN  IF g.err # "none"
           THEN /\ Throw(g.err)
                /\ dLocal' = NoLocals
                /\ ops' = << >>
           ELSE /\ dpc' = "importing"
                /\ dOut' = NoCall
                /\ dLocal' = g
                /\ ops' = << "importKey" >>
    /\ UNCHANGED << encIn, envelope, tampered >>
    /\ UNCHANGED << batchVars, viewerVars >>

\* importKey resolves; crypto.subtle.deriveKey is started
DecryptImported ==
    /\ dpc = "importing"
    /\ dpc' = "deriving"
    /\ ops' = Append(ops, "deriveKey")
    /\ UNCHANGED << encIn, envelope, tampered, dPass, dLocal, dOut >>
    /\ UNCHANGED << batchVars, viewerVars >>

\* deriveKey settles; on success crypto.subtle.decrypt is started
DecryptDerived ==
    /\ dpc = "deriving"
    /\ LET key == deriveKeyFromPassword(dPass, dLocal.saltBuf, dLocal.iterations)
       IN  IF key.err # "none"
           THEN /\ Throw(key.err)
                /\ UNCHANGED << dLocal, ops >>
           ELSE /\ dpc' = "decrypting"
                /\ dLocal' = [saltBuf |-> dLocal.saltBuf, ivBuf |-> dLocal.ivBuf,
                              ctBuf |-> dLocal.ctBuf, iterations |-> dLocal.iterations,
                              err |-> "none", key |-> key]
                /\ ops' = Append(ops, "decrypt")
                /\ UNCHANGED dOut
    /\ UNCHANGED << encIn, envelope, tampered, dPass >>
    /\ UNCHANGED << batchVars, viewerVars >>

\* a decryptPackage without the try/catch around crypto.subtle.decrypt
decryptPackageFinish_NoCatch(r) ==
    IF r.ok THEN [kind |-> "value", str |-> bufToStr(r.data)]
    ELSE [kind |-> "error", msg |-> "OperationError"]

\* lines 71-83: what the call does with the outcome r of crypto.subtle.decrypt
decryptPackageFinish(r) ==
    IF r.ok THEN [kind |-> "value", str |-> bufToStr(r.data)]
    ELSE [kind |-> "error", msg |-> AuthenticationFailure]

\* crypto.subtle.decrypt settles
DecryptSettled ==
    /\ dpc = "decrypting"
    /\ LET r == AesGcmDecrypt(dLocal.key, dLocal.ivBuf, dLocal.ctBuf)
           out == decryptPackageFinish(r)
       IN  /\ dOut' = out
           /\ dpc' = IF out.kind = "value" THEN "returned" ELSE "thrown"
           /\ dLocal' = [saltBuf |-> dLocal.saltBuf, ivBuf |-> dLocal.ivBuf,
                         ctBuf |-> dLocal.ctBuf, iterations |-> dLocal.iterations,
                         err |-> "none", key |-> dLocal.key, tagOk |-> r.ok,
                         plainBuf |-> IF r.ok THEN r.data ELSE << >>]
    /\ UNCHANGED << encIn, envelope, tampered, dPass, ops >>
    /\ UNCHANGED << batchVars, viewerVars >>

(***************************************************************************)
(* The batch tool (batch_encrypt.js).  File names are strings; the target  *)
(* directory is a function from the names of its entries to their content: *)
(* the bytes of a plaintext file, the text of an envelope, a manifest, or  *)
(* what a failed write left behind.                                        *)
(***************************************************************************)
\* "1980.txt", "1981.txt", "A.TXT", "notes.md"
Name1980 == << 49, 57, 56, 48, 46, 116, 120, 116 >>
Name1981 == << 49, 57, 56, 49, 46, 116, 120, 116 >>
NameUpper == << 65, 46, 84, 88, 84 >>
NameNotes == << 110, 111, 116, 101, 115, 46, 109, 100 >>
\* "1979.txt.enc", an output of an earlier run whose plaintext is gone
NameStaleEnc == << 49, 57, 55, 57, 46, 116, 120, 116, 46, 101, 110, 99 >>
\* ".txt", ".enc", "manifest.json"
DotTxt == << 46, 116, 120, 116 >>
DotEnc == << 46, 101, 110, 99 >>
ManifestName == << 109, 97, 110, 105, 102, 101, 115, 116, 46, 106, 115, 111, 110 >>

\* String.prototype.toLowerCase, on ASCII names
toLowerCase(s) == [i \in 1..Len(s) |-> IF s[i] >= 65 /\ s[i] <= 90 THEN s[i] + 32 ELSE s[i]]

endsWith(s, suffix) ==
    /\ Len(s) >= Len(suffix)
    /\ Drop(s, Len(s) - Len(suffix)) = suffix

\* allFiles.filter(f => f.toLowerCase().endsWith('.txt'))
IsTxt(f) == endsWith(toLowerCase(f), DotTxt)

\* a file name that puts the output on top of its input
OutName_SameAsInput(fname) == fname

\* const outname = fname + '.enc'
OutName(fname) == fname \o DotEnc

\* the order of Array.prototype.sort without a comparator: by UTF-16 code units
LexLess(a, b) ==
    \E k \in 1..(Len(b)) :
        /\ \A i \in 1..(k - 1) : i <= Len(a) /\ a[i] = b[i]
        /\ k - 1 <= Len(a)
        /\ (k > Len(a) \/ a[k] < b[k])

\* a manifest builder that keeps the order of processing
SortNames_Unsorted(names) == names

\* encNames.sort()
SortNames(names) ==
    LET n == Len(names)
        rank(i) == Cardinality({ j \in 1..n :
                        LexLess(names[j], names[i]) \/ (names[j] = names[i] /\ j < i) })
    IN  [r \in 1..n |-> names[CHOOSE i \in 1..n : rank(i) = r - 1]]

\* a main that does not compare the two entries
PassphrasesMatch_NotCompared(p1, p2) == TRUE

\* pass1 !== pass2 is false
PassphrasesMatch(p1, p2) == p1 = p2

\* the exit status of a run that swallows I/O errors
ExitStatus_IgnoresIoErrors(why) == IF why \in {"none", "io"} THEN 0 ELSE 1

\* process.exit(1) on every error path, 0 otherwise; a process ended by
\* SIGINT has the status 128 + 2
ExitStatus(why) == IF why = "none" THEN 0 ELSE IF why = "signal" THEN 130 ELSE 1

\* all orders in which a directory listing can give the names in S
Orders(S) ==
    { o \in [1..Cardinality(S) -> S] : \A i, j \in 1..Cardinality(S) : i # j => o[i] # o[j] }

\* the bytes of the plaintext files: "H" + the name's fourth character, the
\* second file with a byte order mark
ContentOf(name) ==
    [kind |-> "bytes",
     data |-> IF name = Name1981 THEN << 239, 187, 191, 72, name[4] >> ELSE << 72, name[4] >>]

PlainNames == { Name1980, Name1981, NameUpper }

\* the directories a run can find
Directories ==
    { [n \in present \cup {NameNotes} \cup old |->
          IF n \in PlainNames THEN ContentOf(n)
          ELSE IF n = NameNotes THEN [kind |-> "bytes", data |-> << 35 >>]
          ELSE IF n = ManifestName
              THEN [kind |-> "manifest", files |-> << NameStaleEnc, OutName(Name1980) >>]
          ELSE [kind |-> "text", text |-> << >>]] :
        present \in SUBSET PlainNames,
        old \in { {}, { ManifestName, NameStaleEnc, OutName(Name1980) } } }

\* process.exit, or the end of main
Exit(why, message) ==
    /\ bpc' = "exited"
    /\ fault' = why
    /\ exitCode' = ExitStatus(why)
    /\ stderr' = message

\* the catch at the end of main
Fatal(why) == Exit(why, "Fatal error:")

\* writeFileSync(path, content) that succeeds
WriteFile(name, content) ==
    fs' = [n \in DOMAIN fs \cup {name} |-> IF n = name THEN content ELSE fs[n]]

\* writeFileSync(path, content) that throws: the file is as it was, or was
\* opened (flag 'w': created or truncated) and not written out
WriteFails(name) ==
    \/ UNCHANGED fs
    \/ fs' = [n \in DOMAIN fs \cup {name} |-> IF n = name THEN [kind |-> "partial"] ELSE fs[n]]

\* lines 213-227: the target directory and the list of .txt files
BatchStart ==
    /\ bpc = "start"
    /\ \/ /\ targetKind # "dir"
          /\ Exit("dir", "Directory not found")
          /\ UNCHANGED << txtFiles, prompts >>
       \/ /\ targetKind = "dir"
          /\ Fatal("io")
          /\ UNCHANGED << txtFiles, prompts >>
       \/ /\ targetKind = "dir"
          /\ { f \in DOMAIN fs : IsTxt(f) } = {}
          /\ Exit("none", "")
          /\ UNCHANGED << txtFiles, prompts >>
       \/ /\ targetKind = "dir"
          /\ { f \in DOMAIN fs : IsTxt(f) } # {}
          /\ txtFiles' \in Orders({ f \in DOMAIN fs : IsTxt(f) })
          /\ bpc' = "prompt1"
          /\ prompts' = 1
          /\ UNCHANGED << exitCode, stderr, fault >>
    /\ UNCHANGED << targetKind, fs, fs0, idx, pass1, pass2, cur, encNames, writes >>
    /\ UNCHANGED << codecVars, viewerVars >>

\* the first promptHidden settles: a passphrase, or Ctrl-C
BatchPrompt1 ==
    /\ bpc = "prompt1"
    /\ \/ /\ \E p \in Passphrases : pass1' = p
          /\ bpc' = "prompt2"
          /\ prompts' = 2
          /\ UNCHANGED << exitCode, stderr, fault >>
       \/ /\ Exit("ctrlc", "")
          /\ UNCHANGED << pass1, prompts >>
    /\ UNCHANGED << targetKind, fs, fs0, txtFiles, idx, pass2, cur, encNames, writes >>
    /\ UNCHANGED << codecVars, viewerVars >>

\* lines 244-253 for txtFiles[i]: the file is read, encryptTextNode draws salt
\* and iv and awaits the key
BeginFile(i) ==
    \/ /\ Fatal("io")
       /\ UNCHANGED << idx, cur >>
    \/ /\ Fatal("random")
       /\ UNCHANGED << idx, cur >>
    \/ /\ \E salt \in rndBytes(SaltLen), iv \in rndBytes(IvLen) :
             cur' = [plain |-> readUtf8(fs[txtFiles[i]].data), salt |-> salt, iv |-> iv]
       /\ idx' = i
       /\ bpc' = "encrypting"
       /\ UNCHANGED << exitCode, stderr, fault >>

\* the second promptHidden settles; on equal entries the loop begins
BatchPrompt2 ==
    /\ bpc = "prompt2"
    /\ \/ /\ Exit("ctrlc", "")
          /\ UNCHANGED << pass2, idx, cur >>
       \/ \E entry \in Passphrases :
             /\ pass2' = entry
             /\ IF PassphrasesMatch(pass1, entry)
                THEN BeginFile(1)
                ELSE /\ Exit("mismatch", "Passphrases do not match. Aborting.")
                     /\ UNCHANGED << idx, cur >>
    /\ UNCHANGED << targetKind, fs, fs0, txtFiles, pass1, encNames, prompts, writes >>
    /\ UNCHANGED << codecVars, viewerVars >>

\* encryptTextNode settles: lines 254-256, then the next file or lines 259-263;
\* or the process is interrupted while the key is derived or the file written
BatchEncrypted ==
    /\ bpc = "encrypting"
    /\ LET fname == txtFiles[idx]
           outname == OutName(fname)
           pkg == encryptTextNode(cur.plain, pass1, ITERATIONS, cur.salt, cur.iv)
           names == Append(encNames, outname)
           wrote == Append(writes, [name |-> outname, ok |-> TRUE])
       IN  \/ /\ Exit("signal", "")
              /\ UNCHANGED << fs, writes, idx, cur, encNames >>
           \/ /\ WriteFails(outname)
              /\ writes' = Append(writes, [name |-> outname, ok |-> FALSE])
              /\ \/ Fatal("io")
                 \/ Exit("signal", "")
              /\ UNCHANGED << idx, cur, encNames >>
           \/ /\ idx < Len(txtFiles)
              /\ WriteFile(outname, [kind |-> "text", text |-> pkg])
              /\ writes' = wrote
              /\ encNames' = names
              /\ BeginFile(idx + 1)
           \/ /\ idx = Len(txtFiles)
              /\ \E mid \in { [n \in DOMAIN fs \cup {outname} |->
                                 IF n = outname THEN [kind |-> "text", text |-> pkg]
                                 ELSE fs[n]] } :
                    \/ /\ fs' = [n \in DOMAIN mid \cup {ManifestName} |->
                                    IF n = ManifestName
                                    THEN [kind |-> "manifest", files |-> SortNames(names)]
                                    ELSE mid[n]]
                       /\ writes' = Append(wrote, [name |-> ManifestName, ok |-> TRUE])
                       /\ Exit("none", "")
                    \/ /\ fs' = mid
                       /\ writes' = Append(wrote, [name |-> ManifestName, ok |-> FALSE])
                       /\ Fatal("io")
                    \/ /\ fs' = [n \in DOMAIN mid \cup {ManifestName} |->
                                    IF n = ManifestName THEN [kind |-> "partial"] ELSE mid[n]]
                       /\ writes' = Append(wrote, [name |-> ManifestName, ok |-> FALSE])
                       /\ Fatal("io")
              /\ encNames' = SortNames(names)
              /\ UNCHANGED << idx, cur >>
    /\ UNCHANGED << targetKind, fs0, txtFiles, pass1, pass2, prompts >>
    /\ UNCHANGED << codecVars, viewerVars >>

(***************************************************************************)
(* The viewer (script.js).  A page load runs loadAllDiariesFromFolder and  *)
(* then attaches the controls; a reload in the same tab keeps              *)
(* sessionStorage, closing the tab ends the session.                       *)
(***************************************************************************)
\* page loads per session
MaxLoads == 2

\* decryptPackage(pkgJsonOrObj, password), from call to settlement
decryptPackage(pkgJsonOrObj, password) ==
    LET g == decryptPackageGate(pkgJsonOrObj)
    IN  IF g.err # "none" THEN [kind |-> "error", msg |-> g.err]
        ELSE LET key == deriveKeyFromPassword(password, g.saltBuf, g.iterations)
             IN  IF key.err # "none" THEN [kind |-> "error", msg |-> key.err]
                 ELSE decryptPackageFinish(AesGcmDecrypt(key, g.ivBuf, g.ctBuf))

\* f.endsWith(".enc")
IsEnc(f) == endsWith(f, DotEnc)

IsDigit(c) == c >= 48 /\ c <= 57

\* filename.match(/(\d{4})/): the first four digits in a row, or "unknown"
extractYear(filename) ==
    LET starts == { i \in 1..(Len(filename) - 3) : \A j \in 0..3 : IsDigit(filename[i + j]) }
    IN  IF starts = {} THEN << 117, 110, 107, 110, 111, 119, 110 >>
        ELSE LET i == CHOOSE k \in starts : \A l \in starts : k <= l
             IN  [j \in 1..4 |-> filename[i + j - 1]]

\* parseInt of a string of four digits
parseInt(y) == (y[1] - 48) * 1000 + (y[2] - 48) * 100 + (y[3] - 48) * 10 + (y[4] - 48)

\* parseDiaryText on a text without a #DAY line: no entries
parseDiaryText(text, year) == << >>

\* the passphrase the site's diaries were encrypted with, and another one
SitePass == << 97 >>
OtherPass == << 98 >>
\* what prompt() returns: null or "" (both falsy), or a passphrase
PromptEntries == { << >>, SitePass, OtherPass }

\* the envelope the batch tool wrote for a plaintext file
SiteEnvelope(name) ==
    encryptTextNode(readUtf8(ContentOf(name).data), SitePass, ITERATIONS,
                    RandomOutcome(SaltLen, 0), RandomOutcome(IvLen, 1))

\* the files lists a manifest.json can hold
SiteManifests ==
    { << >>,
      << Name1981 >>,
      << OutName(Name1980), OutName(Name1981) >>,
      << OutName(Name1980), Name1981 >> }

\* the sites: manifest.json missing or present; the first encrypted diary
\* intact, of another package version, or missing
Sites ==
    { [manifest |-> m,
       files |-> [n \in {OutName(Name1980), OutName(Name1981), Name1981} |->
                    IF n = Name1981
                        THEN [ok |-> TRUE, text |-> bufToStr(ContentOf(n).data)]
                    ELSE IF n = OutName(Name1981)
                        THEN [ok |-> TRUE, text |-> SiteEnvelope(Name1981)]
                    ELSE IF first = "intact"
                        THEN [ok |-> TRUE, text |-> SiteEnvelope(Name1980)]
                    ELSE IF first = "version"
                        THEN [ok |-> TRUE, text |-> SetField(SiteEnvelope(Name1980), "v", Num(2))]
                    ELSE [ok |-> FALSE]]] :
        m \in {[ok |-> FALSE]} \cup { [ok |-> TRUE, files |-> f] : f \in SiteManifests },
        first \in {"intact", "version", "missing"} }

\* sessionStorage.getItem / localStorage.getItem: null is << >> here
GetItem(store, key) == IF key \in DOMAIN store THEN store[key] ELSE << >>

\* storage.setItem(key, value)
SetItem(store, key, value) ==
    [k \in DOMAIN store \cup {key} |-> IF k = key THEN value ELSE store[k]]

\* a viewer that keeps the passphrase in localStorage
StorePassphrase_Local(session, local, passphrase) ==
    [session |-> session, local |-> SetItem(local, "diary_passphrase", passphrase)]

\* line 83: sessionStorage.setItem("diary_passphrase", passphrase)
StorePassphrase(session, local, passphrase) ==
    [session |-> SetItem(session, "diary_passphrase", passphrase), local |-> local]

\* a viewer that asks at every load
NeedsPrompt_Always(stored) == TRUE

\* line 80: !passphrase, for what sessionStorage.getItem returned
NeedsPrompt(stored) == stored = << >>

\* line 108: continue, on to the next file
AfterFailure(i, n) == i + 1

\* the page as a load finds it: the module's initial values
PageReset ==
    /\ vPass' = << >>
    /\ vFiles' = << >>
    /\ vIdx' = 0
    /\ diaryData' = EmptyStore
    /\ vError' = ""
    /\ decLog' = << >>
    /\ currentDate' = NullDate
    /\ currentView' = "month"
    /\ currentYear' = 0
    /\ lastNav' = NoNav

\* the tab is opened on the site, or reloaded: DOMContentLoaded, up to the
\* fetch of manifest.json
ViewerOpen ==
    /\ vpc \in {"closed", "ready"}
    /\ loads < MaxLoads
    /\ loads' = loads + 1
    /\ vpc' = "manifest"
    /\ PageReset
    /\ UNCHANGED << site, sessionStore, localStore, promptLog >>
    /\ UNCHANGED << codecVars, batchVars >>

\* the outer catch of loadAllDiariesFromFolder, then the rest of the
\* DOMContentLoaded handler with no diary loaded
LoadFailed(message) ==
    /\ vError' = message
    /\ vpc' = "ready"
    /\ UNCHANGED << diaryData, currentDate, currentYear >>

\* lines 69-88: manifest.json arrives (or not); the passphrase is taken from
\* sessionStorage or asked for
ViewerManifest ==
    /\ vpc = "manifest"
    /\ IF ~site.manifest.ok
       THEN /\ LoadFailed("Failed to load diary manifest")
            /\ UNCHANGED << sessionStore, localStore, vPass, vFiles, vIdx, promptLog >>
       ELSE LET files == site.manifest.files
                hasEncrypted == \E i \in 1..Len(files) : IsEnc(files[i])
                stored == GetItem(sessionStore, "diary_passphrase")
            IN  IF files = << >>
                THEN /\ LoadFailed("No diary files listed in manifest")
                     /\ UNCHANGED << sessionStore, localStore, vPass, vFiles, vIdx, promptLog >>
                ELSE IF hasEncrypted /\ NeedsPrompt(stored)
                THEN \E entry \in PromptEntries :
                        /\ promptLog' = Append(promptLog, [stored |-> stored, entry |-> entry])
                        /\ IF entry = << >>
                           THEN /\ LoadFailed("No passphrase provided")
                                /\ UNCHANGED << sessionStore, localStore, vPass, vFiles, vIdx >>
                           ELSE /\ sessionStore' = StorePassphrase(sessionStore, localStore, entry).session
                                /\ localStore' = StorePassphrase(sessionStore, localStore, entry).local
                                /\ vPass' = entry
                                /\ vFiles' = files
                                /\ vIdx' = 1
                                /\ vpc' = "loading"
                                /\ UNCHANGED << diaryData, vError, currentDate, currentYear >>
                ELSE /\ vPass' = IF hasEncrypted THEN stored ELSE << >>
                     /\ vFiles' = files
                     /\ vIdx' = 1
                     /\ vpc' = "loading"
                     /\ UNCHANGED << sessionStore, localStore, promptLog,
                                     diaryData, vError, currentDate, currentYear >>
    /\ UNCHANGED << site, decLog, loads, currentView, lastNav >>
    /\ UNCHANGED << codecVars, batchVars >>

\* Object.keys(allDiaries).sort((a, b) => a - b)[0]
FirstYear(data) == CHOOSE y \in DOMAIN data : \A z \in DOMAIN data : parseInt(y) <= parseInt(z)

\* lines 91-130 for files[i]: fetch, decryptPackage for an .enc file, parse;
\* after the last file finalizeDiaryLoad and the rest of the DOMContentLoaded
\* handler, whose setYear puts the focus on 1 January of the first year
ViewerFile ==
    /\ vpc = "loading"
    /\ LET file == vFiles[vIdx]
           year == extractYear(file)
           res == site.files[file]
           out == IF ~res.ok THEN [kind |-> "error", msg |-> "Cannot fetch"]
                  ELSE IF IsEnc(file) THEN decryptPackage(res.text, vPass)
                  ELSE [kind |-> "value", str |-> res.text]
           data == IF out.kind = "value"
                   THEN SetItem(diaryData, year, parseDiaryText(out.str, parseInt(year)))
                   ELSE diaryData
           next == IF out.kind = "value" THEN vIdx + 1 ELSE AfterFailure(vIdx, Len(vFiles))
       IN  /\ decLog' = IF res.ok /\ IsEnc(file)
                        THEN Append(decLog, [file |-> file, password |-> vPass,
                                             stored |-> GetItem(sessionStore, "diary_passphrase"),
                                             ok |-> out.kind = "value"])
                        ELSE decLog
           /\ diaryData' = data
           /\ IF next <= Len(vFiles)
              THEN /\ vIdx' = next
                   /\ UNCHANGED << vpc, vError, currentDate, currentYear >>
              ELSE /\ vIdx' = next
                   /\ vpc' = "ready"
                   /\ IF DOMAIN data = {}
                      THEN /\ vError' = "No diary data loaded"
                           /\ UNCHANGED << currentDate, currentYear >>
                      ELSE /\ currentYear' = parseInt(FirstYear(data))
                           /\ currentDate' = [y |-> parseInt(FirstYear(data)), m |-> 0, d |-> 1]
                           /\ UNCHANGED vError
    /\ UNCHANGED << site, sessionStore, localStore, vPass, vFiles, promptLog, loads,
                    currentView, lastNav >>
    /\ UNCHANGED << codecVars, batchVars >>

\* lines 227-233: the theme button
ToggleTheme ==
    /\ vpc = "ready"
    /\ localStore' = SetItem(localStore, "theme",
                             IF GetItem(localStore, "theme") = "dark" THEN "light" ELSE "dark")
    /\ UNCHANGED << site, sessionStore, vpc, vPass, vFiles, vIdx, diaryData, vError,
                    promptLog, decLog, loads, currentDate, currentView, currentYear, lastNav >>
    /\ UNCHANGED << codecVars, batchVars >>

\* lines 236-240: the font size slider
SetFontSize ==
    /\ vpc = "ready"
    /\ \E size \in {"14", "18"} :
          /\ GetItem(localStore, "fontSize") # size
          /\ localStore' = SetItem(localStore, "fontSize", size)
    /\ UNCHANGED << site, sessionStore, vpc, vPass, vFiles, vIdx, diaryData, vError,
                    promptLog, decLog, loads, currentDate, currentView, currentYear, lastNav >>
    /\ UNCHANGED << codecVars, batchVars >>

\* the tab is closed: the browser drops its sessionStorage and keeps localStorage
EndSession ==
    /\ vpc = "ready"
    /\ loads > 0
    /\ sessionStore' = EmptyStore
    /\ vpc' = "closed"
    /\ loads' = 0
    /\ promptLog' = << >>
    /\ PageReset
    /\ UNCHANGED << site, localStore >>
    /\ UNCHANGED << codecVars, batchVars >>

(***************************************************************************)
(* The viewer's controls, after a load.  A Date is its local year, month   *)
(* (from 0) and day; the handlers here do not touch the time of day.       *)
(***************************************************************************)
\* how many years beyond the loaded ones the focus is followed
MaxYearsAway == 1

IsLeap(y) == (y % 4 = 0 /\ y % 100 # 0) \/ y % 400 = 0

DaysInMonth(y, m) ==
    IF m = 1 THEN (IF IsLeap(y) THEN 29 ELSE 28)
    ELSE IF m \in {3, 5, 8, 10} THEN 30
    ELSE 31

\* new Date(y, m, d), as setMonth and setDate also compute it: a month outside
\* 0..11 carries into the year, a day outside the month into the months
RECURSIVE MakeDate(_, _, _)
MakeDate(y, m, d) ==
    IF m > 11 THEN MakeDate(y + 1, m - 12, d)
    ELSE IF m < 0 THEN MakeDate(y - 1, m + 12, d)
    ELSE IF d > DaysInMonth(y, m) THEN MakeDate(y, m + 1, d - DaysInMonth(y, m))
    ELSE IF d < 1
        THEN LET py == IF m = 0 THEN y - 1 ELSE y
                 pm == IF m = 0 THEN 11 ELSE m - 1
             IN  MakeDate(py, pm, d + DaysInMonth(py, pm))
    ELSE [y |-> y, m |-> m, d |-> d]

\* lines 326-333: currentDate after navigate(delta)
navigateDate(date, view, delta) ==
    IF view = "month"
    THEN LET moved == MakeDate(date.y, date.m + delta, date.d)
         IN  MakeDate(moved.y, moved.m, 1)
    ELSE IF view = "week" THEN MakeDate(date.y, date.m, date.d + delta * 7)
    ELSE MakeDate(date.y, date.m, date.d + delta)

\* the years of the loaded diaries
LoadedYears == { parseInt(y) : y \in DOMAIN diaryData }

\* the dates the model follows the focus to
InWindow(date) ==
    \E y \in LoadedYears : date.y >= y - MaxYearsAway /\ date.y <= y + MaxYearsAway

\* what the handlers of the controls leave alone
ControlsFrame ==
    /\ UNCHANGED << site, sessionStore, localStore, vpc, vPass, vFiles, vIdx, diaryData,
                    vError, promptLog, decLog, loads >>
    /\ UNCHANGED << codecVars, batchVars >>

\* prevBtn / nextBtn: navigate(-1), navigate(1)
Navigate ==
    /\ vpc = "ready"
    /\ currentDate # NullDate
    /\ \E delta \in {-1, 1} :
          /\ InWindow(navigateDate(currentDate, currentView, delta))
          /\ currentDate' = navigateDate(currentDate, currentView, delta)
          /\ lastNav' = [delta |-> delta, view |-> currentView, from |-> currentDate]
    /\ currentYear' = currentDate'.y
    /\ UNCHANGED currentView
    /\ ControlsFrame

\* viewMode change, then showCurrentView
SetView ==
    /\ vpc = "ready"
    /\ \E v \in {"month", "week", "day"} :
          /\ v # currentView
          /\ currentView' = v
    /\ currentYear' = IF currentDate = NullDate THEN currentYear ELSE currentDate.y
    /\ lastNav' = NoNav
    /\ UNCHANGED currentDate
    /\ ControlsFrame

\* a click on a day of the sidebar calendar, which in month and day view
\* shows the focused month
ClickDay ==
    /\ vpc = "ready"
    /\ currentDate # NullDate
    /\ currentView # "week"
    /\ \E d \in 1..DaysInMonth(currentYear, currentDate.m) :
          currentDate' = MakeDate(currentYear, currentDate.m, d)
    /\ currentDate' # currentDate \/ currentView # "day"
    /\ currentView' = "day"
    /\ currentYear' = currentDate'.y
    /\ lastNav' = NoNav
    /\ ControlsFrame

\* yearSelect change: setYear(y, false), on diaries without entries
SelectYear ==
    /\ vpc = "ready"
    /\ \E y \in LoadedYears :
          /\ y # currentYear \/ currentDate # MakeDate(y, 0, 1)
          /\ currentYear' = y
          /\ currentDate' = MakeDate(y, 0, 1)
    /\ lastNav' = NoNav
    /\ UNCHANGED currentView
    /\ ControlsFrame

(***************************************************************************)
(* The specifications: the codec alone, and a run of the batch tool.       *)
(***************************************************************************)
\* no Encrypt call yet, no decryptPackage call, and no batch run
InitCodec ==
    /\ encIn = [side |-> "none"]
    /\ envelope = Null
    /\ tampered = {}
    /\ dpc = "idle"
    /\ dPass = << >>
    /\ dLocal = NoLocals
    /\ dOut = NoCall
    /\ ops = << >>
    /\ targetKind = "missing"
    /\ fs = [n \in {NameNotes} |-> [kind |-> "bytes", data |-> << 35 >>]]
    /\ fs0 = fs
    /\ bpc = "off"
    /\ txtFiles = << >>
    /\ idx = 0
    /\ pass1 = << >>
    /\ pass2 = << >>
    /\ cur = [plain |-> << >>]
    /\ encNames = << >>
    /\ exitCode = -1
    /\ stderr = ""
    /\ fault = "none"
    /\ prompts = 0
    /\ writes = << >>
    /\ site = [manifest |-> "none"]
    /\ sessionStore = EmptyStore
    /\ localStore = EmptyStore
    /\ vpc = "off"
    /\ vPass = << >>
    /\ vFiles = << >>
    /\ vIdx = 0
    /\ diaryData = EmptyStore
    /\ vError = ""
    /\ promptLog = << >>
    /\ decLog = << >>
    /\ loads = 0
    /\ currentDate = NullDate
    /\ currentView = "month"
    /\ currentYear = 0
    /\ lastNav = NoNav

CodecNext ==
    \/ BrowserEncrypt
    \/ NodeEncrypt
    \/ ReplaceByNull
    \/ TamperVersion
    \/ DropField
    \/ FlipCt
    \/ TamperIter
    \/ DecryptCall
    \/ DecryptImported
    \/ DecryptDerived
    \/ DecryptSettled

SpecCodec == InitCodec /\ [][CodecNext]_vars

\* the batch tool is started on some target path
InitBatch ==
    /\ encIn = [side |-> "none"]
    /\ envelope = Null
    /\ tampered = {}
    /\ dpc = "idle"
    /\ dPass = << >>
    /\ dLocal = NoLocals
    /\ dOut = NoCall
    /\ ops = << >>
    /\ targetKind \in {"dir", "file", "missing"}
    /\ fs \in Directories
    /\ targetKind # "dir" => fs = [n \in {NameNotes} |-> [kind |-> "bytes", data |-> << 35 >>]]
    /\ fs0 = fs
    /\ bpc = "start"
    /\ txtFiles = << >>
    /\ idx = 0
    /\ pass1 = << >>
    /\ pass2 = << >>
    /\ cur = [plain |-> << >>]
    /\ encNames = << >>
    /\ exitCode = -1
    /\ stderr = ""
    /\ fault = "none"
    /\ prompts = 0
    /\ writes = << >>
    /\ site = [manifest |-> "none"]
    /\ sessionStore = EmptyStore
    /\ localStore = EmptyStore
    /\ vpc = "off"
    /\ vPass = << >>
    /\ vFiles = << >>
    /\ vIdx = 0
    /\ diaryData = EmptyStore
    /\ vError = ""
    /\ promptLog = << >>
    /\ decLog = << >>
    /\ loads = 0
    /\ currentDate = NullDate
    /\ currentView = "month"
    /\ currentYear = 0
    /\ lastNav = NoNav

BatchNext ==
    \/ BatchStart
    \/ BatchPrompt1
    \/ BatchPrompt2
    \/ BatchEncrypted

SpecBatch == InitBatch /\ [][BatchNext]_vars

\* a browser that has never opened the site
InitViewer ==
    /\ encIn = [side |-> "none"]
    /\ envelope = Null
    /\ tampered = {}
    /\ dpc = "idle"
    /\ dPass = << >>
    /\ dLocal = NoLocals
    /\ dOut = NoCall
    /\ ops = << >>
    /\ targetKind = "missing"
    /\ fs = [n \in {NameNotes} |-> [kind |-> "bytes", data |-> << 35 >>]]
    /\ fs0 = fs
    /\ bpc = "off"
    /\ txtFiles = << >>
    /\ idx = 0
    /\ pass1 = << >>
    /\ pass2 = << >>
    /\ cur = [plain |-> << >>]
    /\ encNames = << >>
    /\ exitCode = -1
    /\ stderr = ""
    /\ fault = "none"
    /\ prompts = 0
    /\ writes = << >>
    /\ site \in Sites
    /\ sessionStore = EmptyStore
    /\ localStore = EmptyStore
    /\ vpc = "closed"
    /\ vPass = << >>
    /\ vFiles = << >>
    /\ vIdx = 0
    /\ diaryData = EmptyStore
    /\ vError = ""
    /\ promptLog = << >>
    /\ decLog = << >>
    /\ loads = 0
    /\ currentDate = NullDate
    /\ currentView = "month"
    /\ currentYear = 0
    /\ lastNav = NoNav

ViewerNext ==
    \/ ViewerOpen
    \/ ViewerManifest
    \/ ViewerFile
    \/ ToggleTheme
    \/ SetFontSize
    \/ EndSession

SpecViewer == InitViewer /\ [][ViewerNext]_vars

\* either program is started: the batch tool on a target path, or a browser
\* on the site
InitTools ==
    /\ encIn = [side |-> "none"]
    /\ envelope = Null
    /\ tampered = {}
    /\ dpc = "idle"
    /\ dPass = << >>
    /\ dLocal = NoLocals
    /\ dOut = NoCall
    /\ ops = << >>
    /\ \/ /\ bpc = "start"
          /\ targetKind \in {"dir", "file", "missing"}
          /\ fs \in Directories
          /\ targetKind # "dir" => fs = [n \in {NameNotes} |-> [kind |-> "bytes", data |-> << 35 >>]]
          /\ vpc = "off"
          /\ site = [manifest |-> "none"]
       \/ /\ bpc = "off"
          /\ targetKind = "missing"
          /\ fs = [n \in {NameNotes} |-> [kind |-> "bytes", data |-> << 35 >>]]
          /\ vpc = "closed"
          /\ site \in Sites
    /\ fs0 = fs
    /\ txtFiles = << >>
    /\ idx = 0
    /\ pass1 = << >>
    /\ pass2 = << >>
    /\ cur = [plain |-> << >>]
    /\ encNames = << >>
    /\ exitCode = -1
    /\ stderr = ""
    /\ fault = "none"
    /\ prompts = 0
    /\ writes = << >>
    /\ sessionStore = EmptyStore
    /\ localStore = EmptyStore
    /\ vPass = << >>
    /\ vFiles = << >>
    /\ vIdx = 0
    /\ diaryData = EmptyStore
    /\ vError = ""
    /\ promptLog = << >>
    /\ decLog = << >>
    /\ loads = 0
    /\ currentDate = NullDate
    /\ currentView = "month"
    /\ currentYear = 0
    /\ lastNav = NoNav

ToolsNext ==
    \/ BatchStart
    \/ BatchPrompt1
    \/ BatchPrompt2
    \/ BatchEncrypted
    \/ ViewerOpen
    \/ ViewerManifest
    \/ ViewerFile
    \/ ToggleTheme
    \/ SetFontSize
    \/ EndSession

SpecTools == InitTools /\ [][ToolsNext]_vars

\* the page after a load of the two encrypted diaries with the right passphrase
InitControls ==
    /\ encIn = [side |-> "none"]
    /\ envelope = Null
    /\ tampered = {}
    /\ dpc = "idle"
    /\ dPass = << >>
    /\ dLocal = NoLocals
    /\ dOut = NoCall
    /\ ops = << >>
    /\ targetKind = "missing"
    /\ fs = [n \in {NameNotes} |-> [kind |-> "bytes", data |-> << 35 >>]]
    /\ fs0 = fs
    /\ bpc = "off"
    /\ txtFiles = << >>
    /\ idx = 0
    /\ pass1 = << >>
    /\ pass2 = << >>
    /\ cur = [plain |-> << >>]
    /\ encNames = << >>
    /\ exitCode = -1
    /\ stderr = ""
    /\ fault = "none"
    /\ prompts = 0
    /\ writes = << >>
    /\ site \in { st \in Sites : /\ st.manifest.ok
                                 /\ st.manifest.files = << OutName(Name1980), OutName(Name1981) >>
                                 /\ st.files[OutName(Name1980)].ok
                                 /\ JsonParse(st.files[OutName(Name1980)].text)["v"] = Num(1) }
    /\ sessionStore = SetItem(EmptyStore, "diary_passphrase", SitePass)
    /\ localStore = EmptyStore
    /\ vpc = "ready"
    /\ vPass = SitePass
    /\ vFiles = site.manifest.files
    /\ vIdx = 3
    /\ diaryData = [y \in { extractYear(Name1980), extractYear(Name1981) } |-> << >>]
    /\ vError = ""
    /\ promptLog = << [stored |-> << >>, entry |-> SitePass] >>
    /\ decLog = [i \in 1..2 |-> [file |-> site.manifest.files[i], password |-> SitePass,
                                 stored |-> SitePass, ok |-> TRUE]]
    /\ loads = 1
    /\ currentDate = MakeDate(parseInt(extractYear(Name1980)), 0, 1)
    /\ currentView = "month"
    /\ currentYear = parseInt(extractYear(Name1980))
    /\ lastNav = NoNav

ControlsNext ==
    \/ Navigate
    \/ SetView
    \/ ClickDay
    \/ SelectYear

SpecControls == InitControls /\ [][ControlsNext]_vars

(***************************************************************************)
(* Properties of the envelope codec.                                       *)
(***************************************************************************)
Settled == dpc \in {"returned", "thrown"}

\* the envelope reaches decryptPackage as Encrypt wrote it, with Encrypt's passphrase
SameEnvelopeSamePass == tampered = {} /\ dPass = encIn.pass

\* the parsed envelope at hand
Pkg == JsonParse(envelope)

\* C1: decrypting the envelope that Encrypt(P, W, N) produced, with the same
\* passphrase W, returns exactly P.
RoundTripExact ==
    (Settled /\ SameEnvelopeSamePass) =>
        /\ dpc = "returned"
        /\ dOut = [kind |-> "value", str |-> encIn.plain]

\* C2: whenever the tag verification of a decryptPackage call fails, for a
\* wrong passphrase as for a changed ct field, the call throws the one
\* AuthenticationFailure error and returns no plaintext.
TagFailureIsAuthenticationFailure ==
    (Settled /\ "tagOk" \in DOMAIN dLocal /\ ~dLocal.tagOk) =>
        /\ dpc = "thrown"
        /\ dOut = [kind |-> "error", msg |-> AuthenticationFailure]

\* a call with the right passphrase on an envelope whose ct field was changed
\* failed the tag verification
ChangedCtRejected ==
    /\ dpc = "thrown"
    /\ tampered = {"ct"}
    /\ dPass = encIn.pass
    /\ "tagOk" \in DOMAIN dLocal
    /\ ~dLocal.tagOk
    /\ dOut.msg = AuthenticationFailure

\* a call with another passphrase on the unchanged envelope failed the tag
\* verification
WrongPassphraseRejected ==
    /\ dpc = "thrown"
    /\ tampered = {}
    /\ dPass # encIn.pass
    /\ "tagOk" \in DOMAIN dLocal
    /\ ~dLocal.tagOk
    /\ dOut.msg = AuthenticationFailure

\* C3: a decryptPackage call on an envelope whose v is not the number 1 (or
\* is absent) throws UnsupportedVersion, whatever its other fields are, and has
\* started no crypto operation.
VersionGate ==
    (dpc # "idle" /\ (envelope = Null \/ Pkg["v"] # Num(1))) =>
        /\ dpc = "thrown"
        /\ dOut = [kind |-> "error", msg |-> UnsupportedVersion]
        /\ ops = << >>

\* an envelope with a wrong version and a missing field was rejected for its version
WrongVersionMissingFieldRejected ==
    /\ dpc = "thrown"
    /\ envelope # Null
    /\ Pkg["v"] # Num(1)
    /\ \E f \in {"salt", "iv", "ct"} : Pkg[f] = Undefined
    /\ dOut.msg = UnsupportedVersion

\* C4: a decryptPackage call on a version-1 envelope without salt, iv or ct
\* throws MalformedPackage and has started no crypto operation.
FieldGate ==
    (/\ dpc # "idle"
     /\ envelope # Null
     /\ Pkg["v"] = Num(1)
     /\ \E f \in {"salt", "iv", "ct"} : Pkg[f] = Undefined) =>
        /\ dpc = "thrown"
        /\ dOut = [kind |-> "error", msg |-> MalformedPackage]
        /\ ops = << >>

\* a version-1 envelope without iv was rejected
MissingIvRejected ==
    /\ dpc = "thrown"
    /\ envelope # Null
    /\ Pkg["v"] = Num(1)
    /\ Pkg["iv"] = Undefined
    /\ dOut.msg = MalformedPackage

\* C5: the key of a decryptPackage call is derived with the envelope's
\* kdf_iter, and the unchanged envelope of an Encrypt with N iterations
\* decrypts, with Encrypt's passphrase, to the bytes that were encrypted.
IterationFidelity ==
    /\ ("key" \in DOMAIN dLocal /\ Pkg["kdf_iter"].t = "num" /\ Pkg["kdf_iter"].n > 0) =>
            dLocal.key.iter = Pkg["kdf_iter"].n
    /\ (Settled /\ SameEnvelopeSamePass) =>
            /\ dpc = "returned"
            /\ dLocal.key.iter = encIn.iter
            /\ dLocal.plainBuf = strToBuf(encIn.plain)

\* the batch tool's envelope, with 1,000,000 iterations, was decrypted
MillionIterationsDecrypted ==
    /\ dpc = "returned"
    /\ SameEnvelopeSamePass
    /\ encIn.side = "node"
    /\ encIn.iter = ITERATIONS
    /\ encIn.iter # BrowserIterations
    /\ Len(encIn.plain) > 0

\* C11: a decryptPackage call on an envelope whose kdf_iter is 0 or negative
\* fails with the key derivation's error for the iteration count, and has
\* derived no key.
NonPositiveIterationsRejected ==
    (/\ Settled
     /\ tampered = {"kdf_iter"}
     /\ Pkg["kdf_iter"].t = "num"
     /\ Pkg["kdf_iter"].n <= 0) =>
        /\ dpc = "thrown"
        /\ dOut.msg \in InvalidIterationCount
        /\ "key" \notin DOMAIN dLocal

(***************************************************************************)
(* Properties of the batch tool.                                           *)
(***************************************************************************)
\* the .txt files of the target directory when the run began
Matched == { f \in DOMAIN fs0 : IsTxt(f) }

\* names is in strictly ascending order of code units
Ascending(names) ==
    \A i, j \in 1..Len(names) : i < j => LexLess(names[i], names[j])

Range(seq) == { seq[i] : i \in 1..Len(seq) }

\* C7: when the two passphrase entries differ, the run has written nothing,
\* the directory is as it was, and the run has ended with a non-zero status
\* and the mismatch message.
MismatchAbort ==
    (pass2 # << >> /\ pass1 # pass2) =>
        /\ bpc = "exited"
        /\ exitCode # 0
        /\ stderr = "Passphrases do not match. Aborting."
        /\ writes = << >>
        /\ fs = fs0

\* two different entries were made in a directory with .txt files
MismatchEntered ==
    /\ pass2 # << >>
    /\ pass1 # pass2
    /\ Cardinality(Matched) >= 2
    /\ bpc = "exited"

\* C8: after a run that completed, manifest.json lists exactly the outputs
\* of this run, one per matched file, in ascending order, whatever the
\* enumeration order and the earlier manifest were.
ManifestExact ==
    (bpc = "exited" /\ exitCode = 0 /\ Matched # {}) =>
        /\ ManifestName \in DOMAIN fs
        /\ fs[ManifestName].kind = "manifest"
        /\ Range(fs[ManifestName].files) = { OutName(f) : f \in Matched }
        /\ Len(fs[ManifestName].files) = Cardinality(Matched)
        /\ Ascending(fs[ManifestName].files)

\* a run completed that enumerated the files in descending order, in a
\* directory whose earlier manifest listed an output this run did not produce
StaleManifestReplaced ==
    /\ bpc = "exited"
    /\ exitCode = 0
    /\ Len(txtFiles) >= 2
    /\ LexLess(txtFiles[2], txtFiles[1])
    /\ ManifestName \in DOMAIN fs0
    /\ NameStaleEnc \in Range(fs0[ManifestName].files)
    /\ NameStaleEnc \notin Range(fs[ManifestName].files)

\* C9: at every point of a run, successful or aborted, every matched
\* plaintext file is as it was when the run began, and no write went to a
\* matched file's name.
PlaintextUntouched ==
    /\ \A f \in Matched : f \in DOMAIN fs /\ fs[f] = fs0[f]
    /\ \A i \in 1..Len(writes) : writes[i].name \notin Matched

\* a run has written the outputs of two plaintext files and the manifest
OutputsWritten ==
    /\ bpc = "exited"
    /\ Cardinality(Matched) >= 2
    /\ Len(writes) = Cardinality(Matched) + 1
    /\ \A f \in Matched : fs[f] = fs0[f]

\* the run encrypted every matched file and then wrote the manifest
AllEncryptedThenManifest ==
    /\ Matched # {}
    /\ Range(txtFiles) = Matched
    /\ writes = [i \in 1..Len(txtFiles) |-> [name |-> OutName(txtFiles[i]), ok |-> TRUE]]
                    \o << [name |-> ManifestName, ok |-> TRUE] >>
    /\ \A f \in Matched : fs[OutName(f)].kind = "text"
    /\ fs[ManifestName].kind = "manifest"

\* the directory was listed, nothing matched, and the run did nothing
NothingToDo ==
    /\ targetKind = "dir"
    /\ Matched = {}
    /\ fault = "none"
    /\ prompts = 0
    /\ writes = << >>
    /\ fs = fs0

\* C10: a run that has ended has status 0 exactly when it encrypted every
\* matched file and then wrote the manifest, or when nothing matched and it
\* did nothing; a target that is no directory, a passphrase mismatch or an
\* I/O or random-source error gives a non-zero status.
ExitBehaviour ==
    bpc = "exited" =>
        /\ exitCode = 0 <=> (AllEncryptedThenManifest \/ NothingToDo)
        /\ targetKind # "dir" => exitCode # 0
        /\ (pass2 # << >> /\ pass1 # pass2) => exitCode # 0
        /\ fault \in {"io", "random"} => exitCode # 0

\* a run encrypted two files or more, wrote the manifest and ended with status 0
CompletedWithStatusZero ==
    /\ bpc = "exited"
    /\ exitCode = 0
    /\ Len(txtFiles) >= 2
    /\ AllEncryptedThenManifest

\* a run failed on an I/O error after it had written an output
FailedAfterWrite ==
    /\ bpc = "exited"
    /\ fault = "io"
    /\ Len(writes) >= 2
    /\ writes[1].ok
    /\ exitCode = 1

\* C12: an output file that existed when the run began is replaced only
\* after a prompt for confirmation, that is a prompt beyond the two for the
\* passphrase.
ExistingEncKeptUnlessConfirmed ==
    \A f \in Matched :
        (OutName(f) \in DOMAIN fs0 /\ fs[OutName(f)] # fs0[OutName(f)]) => prompts > 2

\* the text is an envelope that decryptPackage, given the run's passphrase,
\* decrypts to the text read from the plaintext file f
ValidEnvelopeOf(text, f) ==
    LET g == decryptPackageGate(text)
    IN  /\ g.err = "none"
        /\ LET key == deriveKeyFromPassword(pass1, g.saltBuf, g.iterations)
               r == AesGcmDecrypt(key, g.ivBuf, g.ctBuf)
           IN  r.ok /\ r.data = strToBuf(readUtf8(fs0[f].data))

\* the run got into the per-file loop and ended there, by an error or interrupted
EndedInLoop ==
    /\ bpc = "exited"
    /\ exitCode # 0
    /\ pass2 # << >>
    /\ pass1 = pass2
    /\ \A i \in 1..Len(writes) : writes[i].name # ManifestName

\* the files were written one after another, in the order of the listing
Sequential ==
    /\ Len(writes) <= Len(txtFiles) + 1
    /\ \A i \in 1..Len(writes) :
          IF i <= Len(txtFiles) THEN writes[i].name = OutName(txtFiles[i])
          ELSE writes[i].name = ManifestName
    /\ \A i \in 1..Len(writes) : i < Len(writes) => writes[i].ok

\* C13: the outputs are written one after another and the manifest after the
\* last; when a run ends in the per-file loop, every output it wrote is a
\* valid envelope of its source file, the run has not written manifest.json,
\* and manifest.json lists no output that is not completely written.
InterruptedRunLeavesCompletedWork ==
    /\ Sequential
    /\ EndedInLoop =>
          /\ \A i \in 1..Len(writes) : writes[i].ok =>
                /\ fs[writes[i].name].kind = "text"
                /\ ValidEnvelopeOf(fs[writes[i].name].text, txtFiles[i])
          /\ ManifestName \in DOMAIN fs <=> ManifestName \in DOMAIN fs0
          /\ ManifestName \in DOMAIN fs =>
                /\ fs[ManifestName] = fs0[ManifestName]
                /\ \A n \in Range(fs[ManifestName].files) :
                      n \in DOMAIN fs => fs[n].kind # "partial"

(***************************************************************************)
(* Properties of the viewer.                                               *)
(***************************************************************************)
\* the text is an envelope with the six members of encryptTextNode, none of
\* which is the passphrase or its base64 form
EnvelopeWithout(text, passphrase) ==
    LET pkg == JsonParse(text)
    IN  /\ [i \in 1..Len(text) |-> text[i][1]] = FieldNames
        /\ pkg["v"] = Num(1)
        /\ pkg["kdf"] = Str(KdfName)
        /\ pkg["kdf_iter"] = Num(ITERATIONS)
        /\ \A f \in {"salt", "iv", "ct"} :
              pkg[f].s \notin {passphrase, bufToB64(strToBuf(passphrase))}

\* C14: the viewer writes the passphrase to sessionStorage only; localStorage
\* never holds another key than theme and fontSize, nor another value than
\* a theme or a font size; when the session has ended sessionStorage is
\* empty; and every file the batch tool wrote holds an envelope or the list
\* of output names, never the passphrase.
PassphraseNeverDurable ==
    /\ DOMAIN localStore \subseteq {"theme", "fontSize"}
    /\ \A k \in DOMAIN localStore : localStore[k] \in {"dark", "light", "14", "18"}
    /\ DOMAIN sessionStore \subseteq {"diary_passphrase"}
    /\ vpc = "closed" => sessionStore = EmptyStore
    /\ \A i \in 1..Len(writes) : writes[i].ok =>
          IF writes[i].name = ManifestName
          THEN /\ fs[ManifestName].kind = "manifest"
               /\ Range(fs[ManifestName].files) \subseteq { OutName(f) : f \in Matched }
          ELSE /\ fs[writes[i].name].kind = "text"
               /\ EnvelopeWithout(fs[writes[i].name].text, pass1)

\* a passphrase was entered and stored, diaries were decrypted with it, and
\* both preferences were saved
PassphraseInSessionOnly ==
    /\ vpc = "ready"
    /\ GetItem(sessionStore, "diary_passphrase") = SitePass
    /\ Len(promptLog) = 1
    /\ \E i \in 1..Len(decLog) : decLog[i].ok
    /\ DOMAIN localStore = {"theme", "fontSize"}

\* the batch tool wrote its outputs and the manifest
BatchOutputsOnDisk ==
    /\ bpc = "exited"
    /\ exitCode = 0
    /\ Len(writes) >= 3

\* the manifest the site serves lists an .enc file
ManifestHasEncrypted ==
    /\ site.manifest.ok
    /\ \E i \in 1..Len(site.manifest.files) : IsEnc(site.manifest.files[i])

\* the file can be fetched and, if encrypted, decrypted with the passphrase
Loadable(file, passphrase) ==
    /\ site.files[file].ok
    /\ IsEnc(file) => decryptPackage(site.files[file].text, passphrase).kind = "value"

\* the load went through all the files of the manifest
LoadCompleted == vpc = "ready" /\ vFiles # << >> /\ vIdx = Len(vFiles) + 1

FirstOfMonthAway(date, delta) ==
    LET months == date.y * 12 + date.m + delta
    IN  [y |-> months \div 12, m |-> months % 12, d |-> 1]

\* C16: after navigate(+1) or navigate(-1) in month view the focus is the 1st
\* of the month right after, or right before, the month that was focused,
\* whatever the day was, and currentYear is the year of currentDate.
MonthNavigationStepsOneMonth ==
    (lastNav.delta # 0 /\ lastNav.view = "month") =>
        /\ currentDate = FirstOfMonthAway(lastNav.from, lastNav.delta)
        /\ currentYear = currentDate.y

====
